---- MODULE Spec2Model ----
(***************************************************************************)
(* Appointment management server (obulaworld/ams): the in-memory stores    *)
(* of server/routes/appointments.ts and server/routes/organizations.ts,    *)
(* the request handlers that read and write them, and the slot generator.  *)
(*                                                                         *)
(* Representation.                                                         *)
(*  - A "HH:mm" string is the pair <<h, m>>; parse() turns it into minutes *)
(*    after the reference day's midnight and format() turns minutes back   *)
(*    into a pair (hours modulo 24).                                       *)
(*  - A "yyyy-MM-dd" string is its day number since 1970-01-01; a Date is  *)
(*    minutes since the epoch.  The server's zone is taken to be UTC, so   *)
(*    new Date("yyyy-MM-dd") is that day's midnight.                       *)
(*  - A JavaScript object used as a map is a function whose DOMAIN is the  *)
(*    set of keys present; a missing key is a key outside the DOMAIN.      *)
(*  - uuidv4() ids of appointments are their position in the list (nothing *)
(*    is ever removed from it); slot ids and appointment numbers, notes    *)
(*    and names are left out: no handler branches on them.                 *)
(*  - Node runs each synchronous handler to completion, so one handler is  *)
(*    one action.                                                          *)
(***************************************************************************)
EXTENDS Integers, Sequences, FiniteSets, TLC

VARIABLES
    appointments,   \* appointments.ts: Appointment[]
    bookedSlots,    \* appointments.ts: date string -> {organizationId, appointmentId, timeSlots}
    settings,       \* organizations.ts: organization id -> OrganizationSettings
    timeSlots,      \* organizations.ts: organization id -> date string -> TimeSlot[]
    lockedDays,     \* organizations.ts: organization id -> date strings
    requests,       \* create-appointment requests the server has received, with their responses
    genIn,          \* generateTimeSlots: the day's business-hours entry and the settings
    genPc,          \* generateTimeSlots: position ("idle", "start", "loop", "done")
    genCur,         \* generateTimeSlots: currentTime
    genSlots,       \* generateTimeSlots: slots
    genIters,       \* generateTimeSlots: iterations of the while loop so far
    users,          \* auth.ts: users
    organizations,  \* organizations.ts: organizations
    organizationsAppointments,  \* organizations.ts: its own appointments array
    registers,      \* auth.ts: register handlers suspended at an await
    user,           \* AuthContext.tsx: the user state of AuthProvider
    localStorage,   \* the browser's localStorage item "token"
    sessionStorage, \* the browser's sessionStorage item "token"
    calls           \* AuthContext.tsx: calls suspended at their fetch

vars == <<appointments, bookedSlots, settings, timeSlots, lockedDays, requests,
          genIn, genPc, genCur, genSlots, genIters,
          users, organizations, organizationsAppointments, registers,
          user, localStorage, sessionStorage, calls>>

authVars == <<users, organizations, organizationsAppointments, registers>>

clientVars == <<user, localStorage, sessionStorage, calls>>

serverVars == <<appointments, bookedSlots, settings, timeSlots, lockedDays, requests>>

genVars == <<genIn, genPc, genCur, genSlots, genIters>>

(***************************************************************************)
(* Bounds of the model.                                                    *)
(***************************************************************************)
MaxAppointments == 2

MaxRequests == 2

MaxUsers == 2

(***************************************************************************)
(* Time and date conversions (date-fns).                                   *)
(***************************************************************************)
MinutesPerDay == 24 * 60

\* parse(s, "HH:mm", new Date()): minutes after the reference day's midnight.
ParseTime(s) == s[1] * 60 + s[2]

\* format(t, "HH:mm")
FormatTime(t) == <<(t \div 60) % 24, t % 60>>

\* addMinutes(t, n)
AddMinutes(t, n) == t + n

\* A mutant of isWithinInterval: the end of the interval is excluded.
IsWithinIntervalOpenEnd(t, s, e) == s <= t /\ t < e

\* isWithinInterval(t, {start: s, end: e}), for s <= e.
IsWithinInterval(t, s, e) == s <= t /\ t <= e

\* new Date("yyyy-MM-dd"): the day's midnight, in minutes since the epoch.
ParseDate(day) == day * MinutesPerDay

\* format(date, "yyyy-MM-dd")
FormatDate(t) == t \div MinutesPerDay

WeekDays == <<"Thursday", "Friday", "Saturday", "Sunday", "Monday", "Tuesday", "Wednesday">>

\* format(new Date(day), "EEEE"): day 0 (1970-01-01) was a Thursday.
DayOfWeek(day) == WeekDays[(FormatDate(ParseDate(day)) % 7) + 1]

(***************************************************************************)
(* Settings.                                                               *)
(***************************************************************************)
Hours(day, s, e, open) == [day |-> day, start |-> s, end |-> e, isOpen |-> open]

\* initializeOrganizationSettings: the default settings.
DefaultSettings ==
    [businessHours |-> <<Hours("Monday", <<9, 0>>, <<17, 0>>, TRUE),
                         Hours("Tuesday", <<9, 0>>, <<17, 0>>, TRUE),
                         Hours("Wednesday", <<9, 0>>, <<17, 0>>, TRUE),
                         Hours("Thursday", <<9, 0>>, <<17, 0>>, TRUE),
                         Hours("Friday", <<9, 0>>, <<17, 0>>, TRUE),
                         Hours("Saturday", <<9, 0>>, <<13, 0>>, FALSE),
                         Hours("Sunday", <<9, 0>>, <<13, 0>>, FALSE)>>,
     slotDuration |-> 30,
     breakBetweenSlots |-> 0]

(***************************************************************************)
(* generateTimeSlots.                                                      *)
(***************************************************************************)
\* orgSettings.businessHours.find(h => h.day === dayOfWeek): the index of the
\* first entry of that day, 0 when there is none.
FindDay(businessHours, dayOfWeek) ==
    LET hits == {i \in 1..Len(businessHours) : businessHours[i].day = dayOfWeek}
    IN  IF hits = {} THEN 0 ELSE CHOOSE i \in hits : \A j \in hits : i <= j

\* A mutant of LoopCond: the loop goes on until a quarter of an hour after
\* the closing time.
LoopCondLate(cur, startTime, endTime) == IsWithinInterval(cur, startTime, endTime + 15)

\* The while condition of the loop.
LoopCond(cur, startTime, endTime) == IsWithinInterval(cur, startTime, endTime)

\* A mutant of the loop body's advance: the break between slots is forgotten.
NextTimeNoBreak(cur, slotDuration, breakBetweenSlots) == AddMinutes(cur, slotDuration)

\* currentTime after one iteration: addMinutes(slotEnd, breakBetweenSlots).
NextTime(cur, slotDuration, breakBetweenSlots) ==
    AddMinutes(AddMinutes(cur, slotDuration), breakBetweenSlots)

\* slots after one iteration: the slot is pushed when its end is within the interval.
PushSlot(slots, cur, startTime, endTime, slotDuration) ==
    LET slotEnd == AddMinutes(cur, slotDuration)
    IN  IF IsWithinInterval(slotEnd, startTime, endTime)
        THEN Append(slots, [start |-> FormatTime(cur), end |-> FormatTime(slotEnd),
                            isAvailable |-> TRUE])
        ELSE slots

\* The while loop: the slots returned when the loop is entered with currentTime
\* = cur and the slots pushed so far.  (The next iteration's currentTime and
\* slots are bound as values before the recursive use.)
RECURSIVE GenLoop(_, _, _, _, _, _)
GenLoop(cur, startTime, endTime, slotDuration, breakBetweenSlots, slots) ==
    IF LoopCond(cur, startTime, endTime)
    THEN CHOOSE result \in
            {GenLoop(nextCur, startTime, endTime, slotDuration, breakBetweenSlots, nextSlots) :
                nextCur \in {NextTime(cur, slotDuration, breakBetweenSlots)},
                nextSlots \in {PushSlot(slots, cur, startTime, endTime, slotDuration)}} : TRUE
    ELSE slots

\* A mutant of GenerateTimeSlots: the isOpen flag of the day's entry is not read.
GenerateTimeSlotsIgnoringClosed(date, orgSettings) ==
    LET i == FindDay(orgSettings.businessHours, DayOfWeek(date))
    IN  IF i = 0
        THEN <<>>
        ELSE LET startTime == ParseTime(orgSettings.businessHours[i].start)
                 endTime == ParseTime(orgSettings.businessHours[i].end)
             IN  GenLoop(startTime, startTime, endTime, orgSettings.slotDuration,
                         orgSettings.breakBetweenSlots, <<>>)

\* generateTimeSlots(date, orgSettings).  (The parsed times and the settings'
\* numbers are bound as values before the loop.)
GenerateTimeSlots(date, orgSettings) ==
    LET i == FindDay(orgSettings.businessHours, DayOfWeek(date))
    IN  IF i = 0 \/ ~orgSettings.businessHours[i].isOpen
        THEN <<>>
        ELSE CHOOSE result \in
                {GenLoop(startTime, startTime, endTime, slotDuration, breakBetweenSlots, <<>>) :
                    startTime \in {ParseTime(orgSettings.businessHours[i].start)},
                    endTime \in {ParseTime(orgSettings.businessHours[i].end)},
                    slotDuration \in {orgSettings.slotDuration},
                    breakBetweenSlots \in {orgSettings.breakBetweenSlots}} : TRUE

(***************************************************************************)
(* Callers and request inputs.                                             *)
(***************************************************************************)
Orgs == {"org1", "org2"}

Inds == {"ind1", "ind2"}

Users == Orgs \cup Inds

\* Requests that reach the handlers without req.user (no Authorization header)
\* or that the JWT middleware answers itself (a token jwt.verify rejects).
Unauthenticated == {"noToken", "badToken"}

Callers == Users \cup Unauthenticated

\* req.user?.id is truthy: the middleware decoded a token.
Authenticated(u) == u \in Users

\* req.user.role, as the JWT middleware decodes it from the token.
Role(u) == IF u \in Orgs THEN "organization"
           ELSE IF u \in Inds THEN "individual"
           ELSE "none"

\* 2024-01-05, a Friday, and 2024-01-06, a Saturday.
Dates == {19727, 19728}

\* The timeSlot values of create-appointment requests: two intervals with the
\* same start and different ends.
BookableSlots == {[start |-> <<9, 0>>, end |-> <<9, 30>>],
                  [start |-> <<9, 0>>, end |-> <<10, 0>>]}

\* The positions of a day's slot list that a PUT /slots/:date request toggles.
EditIndexes == {1}

\* A second settings value for PUT /settings: one-hour slots.
HourSettings == [DefaultSettings EXCEPT !.slotDuration = 60]

\* Bodies of PUT /settings outside the ranges of settingsSchema: a slot
\* duration under 15 minutes and a break over 60 minutes.
InvalidSettings == {[DefaultSettings EXCEPT !.slotDuration = 10],
                    [DefaultSettings EXCEPT !.breakBetweenSlots = 61]}

SettingsInputs == {DefaultSettings, HourSettings} \cup InvalidSettings

(***************************************************************************)
(* JavaScript objects as maps.                                             *)
(***************************************************************************)
EmptyMap == [k \in {} |-> {}]

Put(f, k, v) == [x \in (DOMAIN f) \cup {k} |-> IF x = k THEN v ELSE f[x]]

Delete(f, k) == [x \in (DOMAIN f) \ {k} |-> f[x]]

\* Array.prototype.includes
Includes(seq, x) == \E i \in 1..Len(seq) : seq[i] = x

(***************************************************************************)
(* appointments.ts                                                         *)
(***************************************************************************)
\* bookedSlots[dateStr]?.timeSlots.find(slot => start and end both match)
ExistingBooking(dateStr, timeSlot) ==
    /\ dateStr \in DOMAIN bookedSlots
    /\ \E i \in 1..Len(bookedSlots[dateStr].timeSlots) :
          /\ bookedSlots[dateStr].timeSlots[i].start = timeSlot.start
          /\ bookedSlots[dateStr].timeSlots[i].end = timeSlot.end

\* A mutant of CreateCode: the "is it booked" check is left out.
CreateCodeUnchecked(u, org, date, timeSlot) ==
    IF Role(u) # "individual" THEN 401 ELSE 201

\* The response status of POST /api/appointments.
CreateCode(u, org, date, timeSlot) ==
    IF ~Authenticated(u) \/ Role(u) # "individual" THEN 401
    ELSE IF ExistingBooking(FormatDate(ParseDate(date)), timeSlot) THEN 400
    ELSE 201

\* The appointment that POST /api/appointments stores.
NewAppointment(u, org, date, timeSlot) ==
    [id |-> Len(appointments) + 1,
     organizationId |-> org,
     individualId |-> u,
     date |-> ParseDate(date),
     timeSlot |-> timeSlot,
     status |-> "pending"]

\* A mutant of StoreBookedSlot: the date's entry is always created anew, with
\* the appointment's slot as its only slot.
StoreBookedSlotAnew(bs, appointment) ==
    Put(bs, FormatDate(appointment.date),
        [organizationId |-> appointment.organizationId,
         appointmentId |-> appointment.id,
         timeSlots |-> <<[start |-> appointment.timeSlot.start,
                          end |-> appointment.timeSlot.end]>>])

\* bookedSlots after the appointment's slot is stored under its date.
StoreBookedSlot(bs, appointment) ==
    LET dateStr == FormatDate(appointment.date)
        entry == IF dateStr \in DOMAIN bs
                 THEN bs[dateStr]
                 ELSE [organizationId |-> appointment.organizationId,
                       appointmentId |-> appointment.id,
                       timeSlots |-> <<>>]
    IN  Put(bs, dateStr,
            [entry EXCEPT !.timeSlots =
                Append(@, [start |-> appointment.timeSlot.start,
                           end |-> appointment.timeSlot.end])])

\* bookedSlots after a cancellation of the appointment: the date's entries are
\* filtered on slot.start alone, and an emptied date is deleted.
RemoveBookedSlot(bs, appointment) ==
    LET dateStr == FormatDate(appointment.date)
    IN  IF dateStr \notin DOMAIN bs
        THEN bs
        ELSE LET rest == SelectSeq(bs[dateStr].timeSlots,
                                   LAMBDA slot : slot.start # appointment.timeSlot.start)
             IN  IF Len(rest) = 0
                 THEN Delete(bs, dateStr)
                 ELSE [bs EXCEPT ![dateStr].timeSlots = rest]

\* What router.post("/") does to the two stores.
CreateEffect(u, org, date, timeSlot) ==
    IF CreateCode(u, org, date, timeSlot) = 201
    THEN /\ appointments' = Append(appointments, NewAppointment(u, org, date, timeSlot))
         /\ bookedSlots' = StoreBookedSlot(bookedSlots, NewAppointment(u, org, date, timeSlot))
    ELSE UNCHANGED <<appointments, bookedSlots>>

\* router.post("/"): create appointment.
CreateAppointment(u, org, date, timeSlot) ==
    /\ CreateCode(u, org, date, timeSlot) = 201 => Len(appointments) < MaxAppointments
    /\ CreateEffect(u, org, date, timeSlot)
    /\ UNCHANGED <<settings, timeSlots, lockedDays, requests>>
    /\ UNCHANGED genVars
    /\ UNCHANGED <<authVars, clientVars>>

\* updateStatusSchema.parse(req.body) succeeds.
ValidStatus(status) == status \in {"confirmed", "cancelled"}

\* The status values of PATCH /:id/status requests: the two of the schema's
\* enum and one outside it.
StatusInputs == {"confirmed", "cancelled", "pending"}

\* A mutant of UpdateStatusCode: the body is not parsed with the schema.
UpdateStatusCodeAnyStatus(u, id, status) ==
    IF ~Authenticated(u) \/ Role(u) # "organization" THEN 401
    ELSE IF ~(id \in 1..Len(appointments) /\ appointments[id].organizationId = u) THEN 404
    ELSE 200

\* A mutant of UpdateStatusCode: the caller's role is not looked at.
UpdateStatusCodeAnyRole(u, id, status) ==
    IF ~Authenticated(u) THEN 401
    ELSE IF ~ValidStatus(status) THEN 400
    ELSE IF ~(id \in 1..Len(appointments) /\ appointments[id].organizationId = u) THEN 404
    ELSE 200

\* The response status of PATCH /api/appointments/:id/status.
UpdateStatusCode(u, id, status) ==
    IF ~Authenticated(u) \/ Role(u) # "organization" THEN 401
    ELSE IF ~ValidStatus(status) THEN 400
    ELSE IF ~(id \in 1..Len(appointments) /\ appointments[id].organizationId = u) THEN 404
    ELSE 200

\* router.patch("/:id/status"): update appointment status.
UpdateStatus(u, id, status) ==
    /\ IF UpdateStatusCode(u, id, status) = 200
       THEN /\ appointments' = [appointments EXCEPT ![id].status = status]
            /\ bookedSlots' = IF status = "cancelled"
                              THEN RemoveBookedSlot(bookedSlots, appointments[id])
                              ELSE bookedSlots
       ELSE UNCHANGED <<appointments, bookedSlots>>
    /\ UNCHANGED <<settings, timeSlots, lockedDays, requests>>
    /\ UNCHANGED genVars
    /\ UNCHANGED <<authVars, clientVars>>

\* A mutant of CancelCode: the appointment is looked up by its id alone.
CancelCodeAnyOwner(u, id) ==
    IF ~Authenticated(u) \/ Role(u) # "individual" THEN 401
    ELSE IF ~(id \in 1..Len(appointments)) THEN 404
    ELSE IF appointments[id].status = "cancelled" THEN 400
    ELSE 200

\* The response status of POST /api/appointments/:id/cancel.
CancelCode(u, id) ==
    IF ~Authenticated(u) \/ Role(u) # "individual" THEN 401
    ELSE IF ~(id \in 1..Len(appointments) /\ appointments[id].individualId = u) THEN 404
    ELSE IF appointments[id].status = "cancelled" THEN 400
    ELSE 200

\* router.post("/:id/cancel"): cancel appointment (for individuals).
CancelAppointment(u, id) ==
    /\ IF CancelCode(u, id) = 200
       THEN /\ appointments' = [appointments EXCEPT ![id].status = "cancelled"]
            /\ bookedSlots' = RemoveBookedSlot(bookedSlots, appointments[id])
       ELSE UNCHANGED <<appointments, bookedSlots>>
    /\ UNCHANGED <<settings, timeSlots, lockedDays, requests>>
    /\ UNCHANGED genVars
    /\ UNCHANGED <<authVars, clientVars>>

\* The filter of the list, filter and get-by-id routes: the appointment is the
\* caller's, by organizationId for an organization and by individualId otherwise.
OwnedBy(apt, u) ==
    IF Role(u) = "organization" THEN apt.organizationId = u ELSE apt.individualId = u

\* The response status and body of GET /api/appointments.
ListCode(u) == IF ~Authenticated(u) THEN 401 ELSE 200

ListBody(u) == SelectSeq(appointments, LAMBDA apt : OwnedBy(apt, u))

\* router.get("/"): appointments of the current user.
ListAppointments(u) ==
    /\ UNCHANGED serverVars
    /\ UNCHANGED genVars
    /\ UNCHANGED <<authVars, clientVars>>

\* The response status and body of GET /api/appointments/stats.
StatsCode(u) == IF ~Authenticated(u) \/ Role(u) # "organization" THEN 401 ELSE 200

StatsBody(u) ==
    LET orgAppointments == SelectSeq(appointments, LAMBDA apt : apt.organizationId = u)
        count(status) == Len(SelectSeq(orgAppointments, LAMBDA apt : apt.status = status))
    IN  [total |-> Len(orgAppointments),
         confirmed |-> count("confirmed"),
         cancelled |-> count("cancelled"),
         pending |-> count("pending")]

\* router.get("/stats"): appointment statistics (for organizations).
GetStats(u) ==
    /\ UNCHANGED serverVars
    /\ UNCHANGED genVars
    /\ UNCHANGED <<authVars, clientVars>>

\* The status and date values of GET /api/appointments/filter; the optional
\* date is a set holding at most one date.
FilterStatuses == {"all", "pending", "cancelled"}

FilterDates == {{}, {19727}}

\* The response status and body of GET /api/appointments/filter, for a query
\* the schema accepts.
FilterCode(u, status, date) == IF ~Authenticated(u) THEN 401 ELSE 200

FilterBody(u, status, date) ==
    SelectSeq(appointments,
              LAMBDA apt : /\ OwnedBy(apt, u)
                           /\ status = "all" \/ apt.status = status
                           /\ date = {} \/ FormatDate(apt.date) \in date)

\* router.get("/filter"): filter appointments.
FilterAppointments(u, status, date) ==
    /\ UNCHANGED serverVars
    /\ UNCHANGED genVars
    /\ UNCHANGED <<authVars, clientVars>>

\* The response status of GET /api/appointments/:id; the body of a 200 is
\* appointments[id].
GetAppointmentCode(u, id) ==
    IF ~Authenticated(u) THEN 401
    ELSE IF ~(id \in 1..Len(appointments) /\ OwnedBy(appointments[id], u)) THEN 404
    ELSE 200

\* router.get("/:id"): appointment by id.
GetAppointment(u, id) ==
    /\ UNCHANGED serverVars
    /\ UNCHANGED genVars
    /\ UNCHANGED <<authVars, clientVars>>

(***************************************************************************)
(* organizations.ts                                                        *)
(***************************************************************************)
\* settings, lockedDays and timeSlots after
\* "if (!settings[id]) initializeOrganizationSettings(id)".
SettingsAfterInit(u) ==
    IF u \in DOMAIN settings THEN settings ELSE Put(settings, u, DefaultSettings)

LockedDaysAfterInit(u) ==
    IF u \in DOMAIN settings THEN lockedDays ELSE Put(lockedDays, u, <<>>)

TimeSlotsAfterInit(u) ==
    IF u \in DOMAIN settings THEN timeSlots ELSE Put(timeSlots, u, EmptyMap)

\* A mutant of IsBooked: a booked slot is matched on its start alone.
IsBookedByStart(date, slot) ==
    /\ date \in DOMAIN bookedSlots
    /\ \E i \in 1..Len(bookedSlots[date].timeSlots) :
          bookedSlots[date].timeSlots[i].start = slot.start

\* bookedSlotsForDate.timeSlots.some(bookedSlot => start and end both match):
\* the test both slot reads apply to each slot of the day.
IsBooked(date, slot) ==
    /\ date \in DOMAIN bookedSlots
    /\ \E i \in 1..Len(bookedSlots[date].timeSlots) :
          /\ bookedSlots[date].timeSlots[i].start = slot.start
          /\ bookedSlots[date].timeSlots[i].end = slot.end

\* One slot of the day: isAvailable is turned to false when the slot is booked.
MarkSlot(slot, date) ==
    IF IsBooked(date, slot) THEN [slot EXCEPT !.isAvailable = FALSE] ELSE slot

\* The day's slots with every booked slot's isAvailable turned to false.  (The
\* list is bound as a value before its slots are visited.)
MarkBooked(slots, date) ==
    CHOOSE marked \in {[i \in 1..Len(s) |-> MarkSlot(s[i], date)] : s \in {slots}} : TRUE

\* Math.round of the quotient n / d of two naturals, d positive.
Round(n, d) == (2 * n + d) \div (2 * d)

\* The response status of GET /analytics for a query with start and end.
AnalyticsCode(u) == IF ~Authenticated(u) THEN 401 ELSE 200

\* analyticsData of GET /analytics over first..last: the counts and rates,
\* taken from the appointments array of organizations.ts.
AnalyticsBody(u, first, last) ==
    LET orgAppointments ==
            SelectSeq(organizationsAppointments,
                      LAMBDA apt : /\ apt.organizationId = u
                                   /\ IsWithinInterval(apt.date, ParseDate(first),
                                                       ParseDate(last)))
        totalAppointments == Len(orgAppointments)
        count(status) == Len(SelectSeq(orgAppointments, LAMBDA apt : apt.status = status))
        rate(status) == IF totalAppointments > 0
                        THEN Round(count(status) * 100, totalAppointments)
                        ELSE 0
    IN  [totalAppointments |-> totalAppointments,
         completionRate |-> rate("confirmed"),
         cancellationRate |-> rate("cancelled")]

\* router.get("/analytics"), start not after end
GetAnalytics(u, first, last) ==
    /\ first <= last
    /\ UNCHANGED serverVars
    /\ UNCHANGED genVars
    /\ UNCHANGED <<authVars, clientVars>>

\* The response status of GET /settings.
GetSettingsCode(u) == IF ~Authenticated(u) THEN 401 ELSE 200

\* router.get("/settings")
GetSettings(u) ==
    /\ IF GetSettingsCode(u) = 200
       THEN /\ settings' = SettingsAfterInit(u)
            /\ lockedDays' = LockedDaysAfterInit(u)
            /\ timeSlots' = TimeSlotsAfterInit(u)
       ELSE UNCHANGED <<settings, lockedDays, timeSlots>>
    /\ UNCHANGED <<appointments, bookedSlots, requests>>
    /\ UNCHANGED genVars
    /\ UNCHANGED <<authVars, clientVars>>

\* A mutant of ValidSettings: slotDuration has no minimum and
\* breakBetweenSlots no maximum.
ValidSettingsHalfOpen(body) ==
    /\ body.slotDuration <= 120
    /\ 0 <= body.breakBetweenSlots

\* settingsSchema.parse(req.body) succeeds.
ValidSettings(body) ==
    /\ 15 <= body.slotDuration /\ body.slotDuration <= 120
    /\ 0 <= body.breakBetweenSlots /\ body.breakBetweenSlots <= 60

\* A mutant of PutSettings: the cached time slots are not cleared.
PutSettingsKeepingCache(u, body) ==
    /\ IF ~Authenticated(u) \/ ~ValidSettings(body)
       THEN UNCHANGED <<settings, lockedDays, timeSlots>>
       ELSE /\ settings' = [SettingsAfterInit(u) EXCEPT ![u] = body]
            /\ lockedDays' = LockedDaysAfterInit(u)
            /\ timeSlots' = TimeSlotsAfterInit(u)
    /\ UNCHANGED <<appointments, bookedSlots, requests>>
    /\ UNCHANGED genVars
    /\ UNCHANGED <<authVars, clientVars>>

\* The response status of PUT /settings.
PutSettingsCode(u, body) ==
    IF ~Authenticated(u) THEN 401
    ELSE IF ~ValidSettings(body) THEN 400
    ELSE 200

\* router.put("/settings")
PutSettings(u, body) ==
    /\ IF PutSettingsCode(u, body) = 200
       THEN /\ settings' = [SettingsAfterInit(u) EXCEPT ![u] = body]
            /\ lockedDays' = LockedDaysAfterInit(u)
            /\ timeSlots' = [TimeSlotsAfterInit(u) EXCEPT ![u] = EmptyMap]
       ELSE UNCHANGED <<settings, lockedDays, timeSlots>>
    /\ UNCHANGED <<appointments, bookedSlots, requests>>
    /\ UNCHANGED genVars
    /\ UNCHANGED <<authVars, clientVars>>

\* daySlots of one day of GET /slots/status, from the stores as they are: a day
\* without a cached list gets a generated one, and the booked slots of the
\* list are turned unavailable in place.
StatusDaySlots(u, date) ==
    LET cache == TimeSlotsAfterInit(u)[u]
        daySlots == IF date \in DOMAIN cache
                    THEN cache[date]
                    ELSE GenerateTimeSlots(date, SettingsAfterInit(u)[u])
    IN  MarkBooked(daySlots, date)

\* A mutant of StatusResponse: a locked day is reported without available slots.
StatusResponseLockedEmpty(u, first, last) ==
    [date \in first..last |->
        [isLocked |-> Includes(LockedDaysAfterInit(u)[u], date),
         availableSlots |-> IF Includes(LockedDaysAfterInit(u)[u], date) THEN 0
                            ELSE Cardinality({i \in 1..Len(StatusDaySlots(u, date)) :
                                                StatusDaySlots(u, date)[i].isAvailable}),
         totalSlots |-> Len(StatusDaySlots(u, date))]]

\* statuses[dateStr] of GET /slots/status, from the day's reconciled slots.
DayStatus(u, date, daySlots) ==
    [isLocked |-> Includes(LockedDaysAfterInit(u)[u], date),
     availableSlots |-> Cardinality({i \in 1..Len(daySlots) : daySlots[i].isAvailable}),
     totalSlots |-> Len(daySlots)]

\* A mutant of ForEachDay: the day's slots are counted as cached or generated,
\* without a look at the booked slots.
ForEachDayUnreconciled(u, day, acc) ==
    CHOOSE next \in
        {[cache |-> Put(acc.cache, day, daySlots),
          statuses |-> Put(acc.statuses, day, DayStatus(u, day, daySlots))] :
            daySlots \in {IF day \in DOMAIN acc.cache
                          THEN acc.cache[day]
                          ELSE GenerateTimeSlots(day, SettingsAfterInit(u)[u])}} : TRUE

\* One call of the days.forEach callback of GET /slots/status: from the cache
\* and the statuses so far to the cache and the statuses after the day.
ForEachDay(u, day, acc) ==
    CHOOSE next \in
        {[cache |-> Put(acc.cache, day, daySlots),
          statuses |-> Put(acc.statuses, day, DayStatus(u, day, daySlots))] :
            daySlots \in {MarkBooked(IF day \in DOMAIN acc.cache
                                     THEN acc.cache[day]
                                     ELSE GenerateTimeSlots(day, SettingsAfterInit(u)[u]),
                                     day)}} : TRUE

\* days.forEach over day..last, in order.
RECURSIVE StatusForEach(_, _, _, _)
StatusForEach(u, day, last, acc) ==
    IF day > last
    THEN acc
    ELSE CHOOSE result \in
            {StatusForEach(u, day + 1, last, next) : next \in {ForEachDay(u, day, acc)}} : TRUE

\* The body of the response of GET /slots/status.
StatusResponse(u, first, last) ==
    StatusForEach(u, first, last,
                  [cache |-> TimeSlotsAfterInit(u)[u], statuses |-> EmptyMap]).statuses

\* The response status of GET /slots/status, for a range with first <= last.
GetSlotsStatusCode(u, first, last) == IF ~Authenticated(u) THEN 401 ELSE 200

\* router.get("/slots/status")
GetSlotsStatus(u, first, last) ==
    /\ first <= last
    /\ IF GetSlotsStatusCode(u, first, last) = 200
       THEN /\ settings' = SettingsAfterInit(u)
            /\ lockedDays' = LockedDaysAfterInit(u)
            /\ timeSlots' = [TimeSlotsAfterInit(u) EXCEPT ![u] =
                                StatusForEach(u, first, last,
                                              [cache |-> @, statuses |-> EmptyMap]).cache]
       ELSE UNCHANGED <<settings, lockedDays, timeSlots>>
    /\ UNCHANGED <<appointments, bookedSlots, requests>>
    /\ UNCHANGED genVars
    /\ UNCHANGED <<authVars, clientVars>>

\* Whether timeSlots[orgId]?.[date] is a cached list (an empty array is truthy).
Cached(u, date) == u \in DOMAIN timeSlots /\ date \in DOMAIN timeSlots[u]

\* The response status of GET /slots/:date: generateTimeSlots throws on missing
\* settings, and lockedDays[orgId].includes on a missing list.
GetSlotsCode(u, date) ==
    IF ~Authenticated(u) THEN 401
    ELSE IF (Cached(u, date) \/ u \in DOMAIN settings) /\ u \in DOMAIN lockedDays
    THEN 200
    ELSE 500

\* The slots of the response of GET /slots/:date (when GetSlotsCode is 200).
GetSlotsBody(u, date) ==
    MarkBooked(IF Cached(u, date) THEN timeSlots[u][date]
               ELSE GenerateTimeSlots(date, settings[u]),
               date)

\* isLocked of the response of GET /slots/:date (when GetSlotsCode is 200).
GetSlotsLocked(u, date) == Includes(lockedDays[u], date)

\* A mutant of GetSlots: the slots of the response are stored in the cache.
GetSlotsStoring(u, date) ==
    /\ IF GetSlotsCode(u, date) = 200
       THEN timeSlots' = [timeSlots EXCEPT ![u] = Put(@, date, GetSlotsBody(u, date))]
       ELSE UNCHANGED timeSlots
    /\ UNCHANGED <<appointments, bookedSlots, settings, lockedDays, requests>>
    /\ UNCHANGED genVars
    /\ UNCHANGED <<authVars, clientVars>>

\* router.get("/slots/:date")
GetSlots(u, date) ==
    /\ UNCHANGED serverVars
    /\ UNCHANGED genVars
    /\ UNCHANGED <<authVars, clientVars>>

\* The response status of PUT /slots/:date for a body the schema accepts: the
\* assignment throws when timeSlots[orgId] is missing.
PutSlotsCode(u, date) ==
    IF ~Authenticated(u) THEN 401
    ELSE IF u \notin DOMAIN timeSlots THEN 500
    ELSE 200

\* router.put("/slots/:date")
PutSlots(u, date, body) ==
    /\ IF PutSlotsCode(u, date) = 200
       THEN timeSlots' = [timeSlots EXCEPT ![u] = Put(@, date, body)]
       ELSE UNCHANGED timeSlots
    /\ UNCHANGED <<appointments, bookedSlots, settings, lockedDays, requests>>
    /\ UNCHANGED genVars
    /\ UNCHANGED <<authVars, clientVars>>

\* The bodies of PUT /slots/:date requests: the day's slots as GET /slots/:date
\* returns them, with the availability of one slot toggled (toggleTimeSlot of
\* CalendarManagement.tsx); an empty list from a client that was given none.
PutSlotsInputs(u, date) ==
    IF GetSlotsCode(u, date) # 200 THEN {<<>>}
    ELSE {[GetSlotsBody(u, date) EXCEPT ![k].isAvailable = ~@] :
            k \in EditIndexes \cap (1..Len(GetSlotsBody(u, date)))}

\* A mutant of PutLockedDay: locking pushes the date without a look at the list.
PutLockedDayAlwaysPush(u, date, isLocked) ==
    /\ IF ~Authenticated(u) \/ u \notin DOMAIN lockedDays
       THEN UNCHANGED lockedDays
       ELSE IF isLocked
       THEN lockedDays' = [lockedDays EXCEPT ![u] = Append(@, date)]
       ELSE lockedDays' = [lockedDays EXCEPT ![u] = SelectSeq(@, LAMBDA d : d # date)]
    /\ UNCHANGED <<appointments, bookedSlots, settings, timeSlots, requests>>
    /\ UNCHANGED genVars
    /\ UNCHANGED <<authVars, clientVars>>

\* The response status of PUT /locked-days/:date: lockedDays[orgId].includes
\* (or .filter) throws when the list is missing.
PutLockedDayCode(u) ==
    IF ~Authenticated(u) THEN 401
    ELSE IF u \notin DOMAIN lockedDays THEN 500
    ELSE 200

\* router.put("/locked-days/:date")
PutLockedDay(u, date, isLocked) ==
    /\ IF PutLockedDayCode(u) # 200
       THEN UNCHANGED lockedDays
       ELSE IF isLocked
       THEN lockedDays' = IF Includes(lockedDays[u], date)
                          THEN lockedDays
                          ELSE [lockedDays EXCEPT ![u] = Append(@, date)]
       ELSE lockedDays' = [lockedDays EXCEPT ![u] = SelectSeq(@, LAMBDA d : d # date)]
    /\ UNCHANGED <<appointments, bookedSlots, settings, timeSlots, requests>>
    /\ UNCHANGED genVars
    /\ UNCHANGED <<authVars, clientVars>>

(***************************************************************************)
(* The server, handling one request at a time.                             *)
(***************************************************************************)
\* auth.ts and organizations.ts at start: no user, no organization, no
\* appointment in the array of organizations.ts, no register handler running.
AuthInit ==
    /\ users = <<>>
    /\ organizations = <<>>
    /\ organizationsAppointments = <<>>
    /\ registers = <<>>

\* AuthProvider at start with empty storages: useState(null), no call running.
ClientInit ==
    /\ user = "null"
    /\ localStorage = "null"
    /\ sessionStorage = "null"
    /\ calls = {}

GenIdle == [hasEntry |-> FALSE, isOpen |-> FALSE, start |-> <<0, 0>>, end |-> <<0, 0>>,
            slotDuration |-> 30, breakBetweenSlots |-> 0]

Init ==
    /\ appointments = <<>>
    /\ bookedSlots = EmptyMap
    /\ settings = EmptyMap
    /\ timeSlots = EmptyMap
    /\ lockedDays = EmptyMap
    /\ requests = <<>>
    /\ genIn = GenIdle
    /\ genPc = "idle"
    /\ genCur = 0
    /\ genSlots = <<>>
    /\ genIters = 0
    /\ AuthInit
    /\ ClientInit

\* The routes of appointments.ts, for the given callers and target organizations.
AppointmentRoutes(callers, orgs) ==
    \/ \E u \in callers, org \in orgs, date \in Dates, timeSlot \in BookableSlots :
          CreateAppointment(u, org, date, timeSlot)
    \/ \E u \in callers, id \in 1..MaxAppointments, status \in StatusInputs :
          UpdateStatus(u, id, status)
    \/ \E u \in callers, id \in 1..MaxAppointments : CancelAppointment(u, id)

\* The reading routes of appointments.ts, for the given callers.
AppointmentReads(callers) ==
    \/ \E u \in callers : ListAppointments(u)
    \/ \E u \in callers : GetStats(u)
    \/ \E u \in callers, status \in FilterStatuses, date \in FilterDates :
          FilterAppointments(u, status, date)
    \/ \E u \in callers, id \in 1..MaxAppointments : GetAppointment(u, id)

\* The reading routes of organizations.ts, for the given callers.
SlotReads(callers) ==
    \/ \E u \in callers : GetSettings(u)
    \/ \E u \in callers, first \in Dates, last \in Dates : GetSlotsStatus(u, first, last)
    \/ \E u \in callers, date \in Dates : GetSlots(u, date)

\* The writing routes of organizations.ts, for the given callers.
CalendarWrites(callers) ==
    \/ \E u \in callers, body \in SettingsInputs : PutSettings(u, body)
    \/ \E u \in callers, date \in Dates : \E body \in PutSlotsInputs(u, date) :
          PutSlots(u, date, body)
    \/ \E u \in callers, date \in Dates, isLocked \in BOOLEAN : PutLockedDay(u, date, isLocked)

\* One organization, one individual and requests without a token, every route.
Next ==
    \/ AppointmentRoutes({"org1", "ind1", "noToken"}, {"org1"})
    \/ AppointmentReads({"org1", "ind1", "noToken"})
    \/ SlotReads({"org1", "noToken"})
    \/ CalendarWrites({"org1", "noToken"})
    \/ \E u \in {"org1", "noToken"}, first \in Dates, last \in Dates :
          GetAnalytics(u, first, last)

Spec == Init /\ [][Next]_vars

\* The same organization and individual with no calendar writes: the
\* appointment routes and the reading routes only.
NextBooking ==
    \/ AppointmentRoutes({"org1", "ind1"}, {"org1"})
    \/ SlotReads({"org1"})

SpecBooking == Init /\ [][NextBooking]_vars

\* Two organizations and two individuals: the routes of appointments.ts, and
\* the organizations' settings and day reads.
NextParties ==
    \/ AppointmentRoutes(Users, Orgs)
    \/ AppointmentReads(Users)
    \/ \E u \in Orgs : GetSettings(u)
    \/ \E u \in Orgs, date \in Dates : GetSlots(u, date)

SpecParties == Init /\ [][NextParties]_vars

\* Two organizations that lock and unlock days and read their slots, with
\* bookings at the first one.
NextLocks ==
    \/ \E u \in Orgs : GetSettings(u)
    \/ \E u \in Orgs, date \in Dates, isLocked \in BOOLEAN : PutLockedDay(u, date, isLocked)
    \/ \E u \in Orgs, first \in Dates, last \in Dates : GetSlotsStatus(u, first, last)
    \/ \E u \in Orgs, date \in Dates : GetSlots(u, date)
    \/ \E date \in Dates, timeSlot \in BookableSlots :
          CreateAppointment("ind1", "org1", date, timeSlot)

SpecLocks == Init /\ [][NextLocks]_vars


(***************************************************************************)
(* Create-appointment requests in flight.  The server receives requests at *)
(* any time and the event loop runs the handler of one request at a time,  *)
(* in the order of arrival, each to completion.                            *)
(***************************************************************************)
\* How many of the received requests have been answered.
Handled == Cardinality({i \in 1..Len(requests) : requests[i].code # 0})

\* A create-appointment request arrives.
ReceiveCreate(u, org, date, timeSlot) ==
    /\ Len(requests) < MaxRequests
    /\ requests' = Append(requests,
                          [u |-> u, org |-> org, date |-> date, timeSlot |-> timeSlot,
                           code |-> 0, handledAtArrival |-> Handled])
    /\ UNCHANGED <<appointments, bookedSlots, settings, timeSlots, lockedDays>>
    /\ UNCHANGED genVars
    /\ UNCHANGED <<authVars, clientVars>>

\* The event loop runs router.post("/") on the oldest unanswered request.
HandleCreate ==
    /\ Handled < Len(requests)
    /\ LET r == requests[Handled + 1]
       IN  /\ CreateCode(r.u, r.org, r.date, r.timeSlot) = 201
                => Len(appointments) < MaxAppointments
           /\ CreateEffect(r.u, r.org, r.date, r.timeSlot)
           /\ requests' = [requests EXCEPT ![Handled + 1].code =
                              CreateCode(r.u, r.org, r.date, r.timeSlot)]
    /\ UNCHANGED <<settings, timeSlots, lockedDays>>
    /\ UNCHANGED genVars
    /\ UNCHANGED <<authVars, clientVars>>

NextRace ==
    \/ \E u \in Inds, org \in {"org1"}, date \in Dates, timeSlot \in BookableSlots :
          ReceiveCreate(u, org, date, timeSlot)
    \/ HandleCreate

SpecRace == Init /\ [][NextRace]_vars

(***************************************************************************)
(* auth.ts: register.  The handler is async: it runs from the request to   *)
(* its first await, and again after each await, with other handlers in     *)
(* between.                                                                *)
(***************************************************************************)
Emails == {"a@example.org", "b@example.org"}

RegisterRoles == {"organization", "individual"}

\* The ids a user of the role can be given (the decoded token's role is the
\* registered role).
RoleIds(role) == IF role = "organization" THEN Orgs ELSE Inds

\* uuidv4(): an id no stored user has.
FreshId(role) == CHOOSE id \in RoleIds(role) : \A i \in 1..Len(users) : users[i].id # id

\* users.find(user => user.email === email)
EmailStored(email) == \E i \in 1..Len(users) : users[i].email = email

\* The response status of POST /api/auth/register, decided at the email check.
RegisterCode(email) == IF EmailStored(email) THEN 400 ELSE 201

\* The handlers of the role that are stored or still running.
RoleCount(role) ==
    Cardinality({i \in 1..Len(users) : users[i].role = role})
        + Cardinality({i \in 1..Len(registers) : registers[i].role = role})

\* router.post("/register") up to "await bcrypt.genSalt(10)": the email check.
RegisterCheck(email, role) ==
    /\ Len(users) + Len(registers) < MaxUsers
    /\ RoleCount(role) < Cardinality(RoleIds(role))
    /\ IF RegisterCode(email) = 400
       THEN UNCHANGED registers
       ELSE registers' = Append(registers, [email |-> email, role |-> role, pc |-> "genSalt"])
    /\ UNCHANGED <<users, organizations, organizationsAppointments>>
    /\ UNCHANGED <<serverVars, genVars, clientVars>>

\* The salt is ready: the handler goes on to "await bcrypt.hash(password, salt)".
RegisterSalted(i) ==
    /\ i \in 1..Len(registers)
    /\ registers[i].pc = "genSalt"
    /\ registers' = [registers EXCEPT ![i].pc = "hash"]
    /\ UNCHANGED <<users, organizations, organizationsAppointments>>
    /\ UNCHANGED <<serverVars, genVars, clientVars>>

\* The hash is ready: the handler stores the user, and the organization when
\* the role is "organization", and answers 201.
RegisterStore(i) ==
    /\ i \in 1..Len(registers)
    /\ registers[i].pc = "hash"
    /\ users' = Append(users, [id |-> FreshId(registers[i].role),
                               email |-> registers[i].email,
                               role |-> registers[i].role])
    /\ organizations' = IF registers[i].role = "organization"
                        THEN Append(organizations,
                                    [id |-> FreshId(registers[i].role),
                                     email |-> registers[i].email,
                                     settings |-> DefaultSettings])
                        ELSE organizations
    /\ registers' = [k \in 1..(Len(registers) - 1) |->
                        IF k < i THEN registers[k] ELSE registers[k + 1]]
    /\ UNCHANGED organizationsAppointments
    /\ UNCHANGED <<serverVars, genVars, clientVars>>

\* The ids of the stored users with role "organization".
RegisteredOrgs == {users[i].id : i \in {k \in 1..Len(users) : users[k].role = "organization"}}

\* Register requests, and the day, slot and lock routes for the organizations
\* that have registered.
NextRegister ==
    \/ \E email \in Emails, role \in RegisterRoles : RegisterCheck(email, role)
    \/ \E i \in 1..MaxUsers : RegisterSalted(i)
    \/ \E i \in 1..MaxUsers : RegisterStore(i)
    \/ \E u \in RegisteredOrgs : GetSettings(u)
    \/ \E u \in RegisteredOrgs, date \in Dates : GetSlots(u, date)
    \/ \E u \in RegisteredOrgs, date \in Dates : \E body \in PutSlotsInputs(u, date) :
          PutSlots(u, date, body)
    \/ \E u \in RegisteredOrgs, date \in Dates, isLocked \in BOOLEAN :
          PutLockedDay(u, date, isLocked)

SpecRegister == Init /\ [][NextRegister]_vars

(***************************************************************************)
(* generateTimeSlots, one loop iteration per step.                         *)
(***************************************************************************)
GenTimes == {<<0, 0>>, <<9, 0>>, <<9, 30>>, <<10, 15>>, <<17, 0>>, <<23, 59>>}

GenDurations == {15, 30, 45, 120}

GenBreaks == {0, 5, 60}

\* The weekday's business-hours entry (if any) and the settings, opening not
\* after closing.
GenInputs ==
    {in \in [hasEntry : BOOLEAN, isOpen : BOOLEAN, start : GenTimes, end : GenTimes,
             slotDuration : GenDurations, breakBetweenSlots : GenBreaks] :
        ParseTime(in.start) <= ParseTime(in.end)}

InitGen ==
    /\ appointments = <<>>
    /\ bookedSlots = EmptyMap
    /\ settings = EmptyMap
    /\ timeSlots = EmptyMap
    /\ lockedDays = EmptyMap
    /\ requests = <<>>
    /\ genIn \in GenInputs
    /\ genPc = "start"
    /\ genCur = 0
    /\ genSlots = <<>>
    /\ genIters = 0
    /\ AuthInit
    /\ ClientInit

\* Lines 142-155: the closed or missing day returns [], an open one enters the loop.
GenEnter ==
    /\ genPc = "start"
    /\ IF ~genIn.hasEntry \/ ~genIn.isOpen
       THEN genPc' = "done" /\ UNCHANGED genCur
       ELSE genPc' = "loop" /\ genCur' = ParseTime(genIn.start)
    /\ UNCHANGED <<genIn, genSlots, genIters>>
    /\ UNCHANGED serverVars
    /\ UNCHANGED <<authVars, clientVars>>

\* One iteration of the while loop.
GenIterate ==
    /\ genPc = "loop"
    /\ LoopCond(genCur, ParseTime(genIn.start), ParseTime(genIn.end))
    /\ genSlots' = PushSlot(genSlots, genCur, ParseTime(genIn.start), ParseTime(genIn.end),
                            genIn.slotDuration)
    /\ genCur' = NextTime(genCur, genIn.slotDuration, genIn.breakBetweenSlots)
    /\ genIters' = genIters + 1
    /\ UNCHANGED <<genIn, genPc>>
    /\ UNCHANGED serverVars
    /\ UNCHANGED <<authVars, clientVars>>

\* The loop condition fails: return slots.
GenExit ==
    /\ genPc = "loop"
    /\ ~LoopCond(genCur, ParseTime(genIn.start), ParseTime(genIn.end))
    /\ genPc' = "done"
    /\ UNCHANGED <<genIn, genCur, genSlots, genIters>>
    /\ UNCHANGED serverVars
    /\ UNCHANGED <<authVars, clientVars>>

NextGen == GenEnter \/ GenIterate \/ GenExit

SpecGen == InitGen /\ [][NextGen]_vars

\* The call runs on: generateTimeSlots is synchronous code that Node runs to
\* its return.
SpecGenRuns == SpecGen /\ WF_vars(NextGen)

(***************************************************************************)
(* AuthContext.tsx: the AuthProvider of the client.  validateToken, login   *)
(* and register are async functions that are suspended at their fetch; the *)
(* server's answer is an input of the step that resumes them.              *)
(***************************************************************************)
\* What a fetch comes back with: response.ok, a response that is not ok, or a
\* rejected promise.
Outcomes == {"ok", "notOk", "throws"}

\* The token found in a storage at start, and the token and user of the
\* responses of /validate, /login and /register.
StoredToken == "token0"

TokenOf(op) == IF op = "login" THEN "token1" ELSE "token2"

UserDataOf(op) == IF op = "register" THEN "ind2" ELSE "ind1"

\* The storages at start hold a token each or none.
StorageInputs == {"null", StoredToken}

\* localStorage.getItem("token") || sessionStorage.getItem("token")
MountToken == IF localStorage # "null" THEN localStorage ELSE sessionStorage

\* AuthProvider after its mount effect: user is null, and validateToken is
\* suspended at its fetch when a storage holds a token.
InitClient ==
    /\ appointments = <<>>
    /\ bookedSlots = EmptyMap
    /\ settings = EmptyMap
    /\ timeSlots = EmptyMap
    /\ lockedDays = EmptyMap
    /\ requests = <<>>
    /\ genIn = GenIdle
    /\ genPc = "idle"
    /\ genCur = 0
    /\ genSlots = <<>>
    /\ genIters = 0
    /\ AuthInit
    /\ user = "null"
    /\ localStorage \in StorageInputs
    /\ sessionStorage \in StorageInputs
    /\ calls = IF MountToken # "null"
               THEN {[op |-> "validateToken", remember |-> FALSE]}
               ELSE {}

\* login(email, password, remember) up to its fetch
LoginCall(remember) ==
    /\ [op |-> "login", remember |-> remember] \notin calls
    /\ calls' = calls \cup {[op |-> "login", remember |-> remember]}
    /\ UNCHANGED <<user, localStorage, sessionStorage>>
    /\ UNCHANGED <<serverVars, genVars, authVars>>

\* register(data) up to its fetch
RegisterCall ==
    /\ [op |-> "register", remember |-> FALSE] \notin calls
    /\ calls' = calls \cup {[op |-> "register", remember |-> FALSE]}
    /\ UNCHANGED <<user, localStorage, sessionStorage>>
    /\ UNCHANGED <<serverVars, genVars, authVars>>

\* validateToken from its fetch on
ValidateTokenResume(c, outcome) ==
    /\ c \in calls /\ c.op = "validateToken"
    /\ calls' = calls \ {c}
    /\ IF outcome = "ok"
       THEN /\ user' = UserDataOf(c.op)
            /\ UNCHANGED <<localStorage, sessionStorage>>
       ELSE IF outcome = "notOk"
       THEN /\ localStorage' = "null"
            /\ sessionStorage' = "null"
            /\ UNCHANGED user
       ELSE UNCHANGED <<user, localStorage, sessionStorage>>
    /\ UNCHANGED <<serverVars, genVars, authVars>>

\* login from its fetch on
LoginResume(c, outcome) ==
    /\ c \in calls /\ c.op = "login"
    /\ calls' = calls \ {c}
    /\ IF outcome = "ok"
       THEN /\ IF c.remember
               THEN localStorage' = TokenOf(c.op) /\ UNCHANGED sessionStorage
               ELSE sessionStorage' = TokenOf(c.op) /\ UNCHANGED localStorage
            /\ user' = UserDataOf(c.op)
       ELSE UNCHANGED <<user, localStorage, sessionStorage>>
    /\ UNCHANGED <<serverVars, genVars, authVars>>

\* register from its fetch on
RegisterResume(c, outcome) ==
    /\ c \in calls /\ c.op = "register"
    /\ calls' = calls \ {c}
    /\ IF outcome = "ok"
       THEN /\ sessionStorage' = TokenOf(c.op)
            /\ user' = UserDataOf(c.op)
            /\ UNCHANGED localStorage
       ELSE UNCHANGED <<user, localStorage, sessionStorage>>
    /\ UNCHANGED <<serverVars, genVars, authVars>>

\* logout()
Logout ==
    /\ localStorage' = "null"
    /\ sessionStorage' = "null"
    /\ user' = "null"
    /\ UNCHANGED calls
    /\ UNCHANGED <<serverVars, genVars, authVars>>

NextClient ==
    \/ \E remember \in BOOLEAN : LoginCall(remember)
    \/ RegisterCall
    \/ \E c \in calls, outcome \in Outcomes : ValidateTokenResume(c, outcome)
    \/ \E c \in calls, outcome \in Outcomes : LoginResume(c, outcome)
    \/ \E c \in calls, outcome \in Outcomes : RegisterResume(c, outcome)
    \/ Logout

SpecClient == InitClient /\ [][NextClient]_vars


(***************************************************************************)
(* Properties.                                                             *)
(***************************************************************************)
Live(a) == a.status # "cancelled"

\* Some appointment that is not cancelled has this organization, date and slot.
Occupied(org, date, start, end) ==
    \E i \in 1..Len(appointments) :
        /\ Live(appointments[i])
        /\ appointments[i].organizationId = org
        /\ FormatDate(appointments[i].date) = date
        /\ appointments[i].timeSlot.start = start
        /\ appointments[i].timeSlot.end = end

\* The step cancels appointment id: a successful individual cancel, or a
\* successful organization status update to "cancelled".
CancelStep(id) ==
    \/ \E u \in Users : CancelCode(u, id) = 200 /\ CancelAppointment(u, id)
    \/ \E u \in Users : UpdateStatusCode(u, id, "cancelled") = 200
                        /\ UpdateStatus(u, id, "cancelled")

\* C1: after a step that cancels a live appointment, GET /slots/:date by the
\* appointment's organization reports the slot with the appointment's
\* (start, end) as available, whatever was read while it was booked.
C1_CancelRestoresAvailability ==
    [][\A id \in 1..Len(appointments) :
          (Live(appointments[id]) /\ CancelStep(id)) =>
              LET org == appointments[id].organizationId
                  date == FormatDate(appointments[id].date)
                  slot == appointments[id].timeSlot
              IN  (GetSlotsCode(org, date) = 200)' =>
                      \A i \in 1..Len(GetSlotsBody(org, date)') :
                          (/\ GetSlotsBody(org, date)'[i].start = slot.start
                           /\ GetSlotsBody(org, date)'[i].end = slot.end)
                              => GetSlotsBody(org, date)'[i].isAvailable]_vars

\* C2: the booked-slots index holds (start, end) under a date exactly when an
\* appointment of that date and slot is not cancelled.
C2_IndexMatchesStatus ==
    \A date \in Dates, timeSlot \in BookableSlots :
        ExistingBooking(date, timeSlot)
            <=> \E i \in 1..Len(appointments) :
                    /\ Live(appointments[i])
                    /\ FormatDate(appointments[i].date) = date
                    /\ appointments[i].timeSlot = timeSlot

\* C3: no two live appointments of one organization share a date and a slot.
C3_OneLiveAppointmentPerSlot ==
    \A i \in 1..Len(appointments), j \in 1..Len(appointments) :
        (/\ i < j
         /\ Live(appointments[i]) /\ Live(appointments[j])
         /\ appointments[i].organizationId = appointments[j].organizationId
         /\ FormatDate(appointments[i].date) = FormatDate(appointments[j].date))
            => appointments[i].timeSlot # appointments[j].timeSlot

\* C4: a step that cancels an appointment removes from the index the entry
\* with the appointment's own date, start and end, and no other entry.
C4_CancelRemovesOnlyOwnEntry ==
    [][\A id \in 1..Len(appointments) :
          CancelStep(id) =>
              \A date \in Dates, timeSlot \in BookableSlots :
                  ExistingBooking(date, timeSlot)'
                      <=> (/\ ExistingBooking(date, timeSlot)
                           /\ ~(/\ date = FormatDate(appointments[id].date)
                                /\ timeSlot = appointments[id].timeSlot))]_vars

\* The day's slots with the slot (start, end) turned unavailable and nothing else changed.
WithSlotTaken(slots, timeSlot) ==
    [i \in 1..Len(slots) |->
        IF slots[i].start = timeSlot.start /\ slots[i].end = timeSlot.end
        THEN [slots[i] EXCEPT !.isAvailable = FALSE]
        ELSE slots[i]]

\* C5: a successful create-appointment step for (date, start, end) turns the
\* slot with exactly that start and end unavailable in both reads of that date
\* (GET /slots/:date and GET /slots/status), and leaves every other slot of the
\* day as the reads reported it before the step.
C5_BookingTakesOnlyItsSlot ==
    [][Len(appointments') > Len(appointments) =>
        \A u \in Users, org \in Orgs, date \in Dates, timeSlot \in BookableSlots :
          (CreateCode(u, org, date, timeSlot) = 201 /\ CreateAppointment(u, org, date, timeSlot))
              => \A reader \in {org} :
                    /\ \A before \in {StatusDaySlots(reader, date)},
                          after \in {StatusDaySlots(reader, date)'} :
                          after = WithSlotTaken(before, timeSlot)
                    /\ GetSlotsCode(reader, date) = 200
                          => /\ (GetSlotsCode(reader, date) = 200)'
                             /\ \A before \in {GetSlotsBody(reader, date)},
                                   after \in {GetSlotsBody(reader, date)'} :
                                   after = WithSlotTaken(before, timeSlot)]_vars

\* C5 witness: a live appointment holds Friday 09:00-09:30, and the organization's
\* read reports that slot unavailable and the next slot, 09:30-10:00, available.
C5_Witness ==
    /\ Occupied("org1", 19727, <<9, 0>>, <<9, 30>>)
    /\ GetSlotsCode("org1", 19727) = 200
    /\ Len(GetSlotsBody("org1", 19727)) >= 2
    /\ GetSlotsBody("org1", 19727)[1] = [start |-> <<9, 0>>, end |-> <<9, 30>>, isAvailable |-> FALSE]
    /\ GetSlotsBody("org1", 19727)[2] = [start |-> <<9, 30>>, end |-> <<10, 0>>, isAvailable |-> TRUE]

\* C6: a slot of the organization's day is reported available exactly when no
\* live appointment occupies it on that date.
C6_AvailabilityMatchesAppointments ==
    \A org \in Orgs, date \in Dates :
        GetSlotsCode(org, date) = 200 =>
            \A i \in 1..Len(GetSlotsBody(org, date)) :
                GetSlotsBody(org, date)[i].isAvailable
                    <=> ~Occupied(org, date, GetSlotsBody(org, date)[i].start,
                                  GetSlotsBody(org, date)[i].end)

\* C7: a create-appointment step for an organization and a date in that
\* organization's locked days is rejected and stores nothing.
C7_LockedDayRejectsBooking ==
    [][\A u \in Users, org \in Orgs, date \in Dates, timeSlot \in BookableSlots :
          (/\ org \in DOMAIN lockedDays
           /\ Includes(lockedDays[org], date)
           /\ CreateAppointment(u, org, date, timeSlot))
              => /\ CreateCode(u, org, date, timeSlot) # 201
                 /\ UNCHANGED <<appointments, bookedSlots>>]_vars

\* Requests i < j were in flight together: j arrived before i was answered.
Simultaneous(i, j) ==
    /\ i < j
    /\ requests[j].handledAtArrival < i
    /\ requests[i].date = requests[j].date
    /\ requests[i].timeSlot = requests[j].timeSlot

\* C8 as stated: two simultaneous create-appointment requests for one date and
\* slot, once both are answered, are both stored.
C8_BothRequestsStored ==
    \A i \in 1..Len(requests), j \in 1..Len(requests) :
        (Simultaneous(i, j) /\ requests[i].code # 0 /\ requests[j].code # 0)
            => requests[i].code = 201 /\ requests[j].code = 201

\* C8 amended: the handler runs to completion, so of two simultaneous
\* create-appointment requests by individuals for one date and slot the later
\* one finds the slot booked and is answered 400: the date and slot hold one
\* pending appointment, never two.
C8_SecondRequestRejected ==
    \A i \in 1..Len(requests), j \in 1..Len(requests) :
        (/\ Simultaneous(i, j)
         /\ Role(requests[i].u) = "individual" /\ Role(requests[j].u) = "individual"
         /\ requests[i].code # 0 /\ requests[j].code # 0)
            => /\ requests[j].code = 400
               /\ Cardinality({k \in 1..Len(appointments) :
                                  /\ appointments[k].status = "pending"
                                  /\ FormatDate(appointments[k].date) = requests[i].date
                                  /\ appointments[k].timeSlot = requests[i].timeSlot}) = 1

\* C8 witness: two requests for one date and slot were in flight together and
\* both have been answered.
C8_Witness ==
    /\ Len(requests) = 2
    /\ Simultaneous(1, 2)
    /\ requests[2].handledAtArrival = 0
    /\ requests[1].code = 201
    /\ requests[2].code = 400

\* The open 09:00-17:00 day with 30-minute slots and no break.
NineToFive ==
    /\ genIn.hasEntry /\ genIn.isOpen
    /\ genIn.start = <<9, 0>> /\ genIn.end = <<17, 0>>
    /\ genIn.slotDuration = 30 /\ genIn.breakBetweenSlots = 0

\* C9: for 09:00-17:00, 30-minute slots and no break the generator returns 16
\* contiguous available slots, 09:00-09:30 to 16:30-17:00 (and the default
\* settings' Friday is that day).
C9_SixteenSlots ==
    (genPc = "done" /\ NineToFive) =>
        /\ Len(genSlots) = 16
        /\ genSlots[1].start = <<9, 0>> /\ genSlots[1].end = <<9, 30>>
        /\ genSlots[16].start = <<16, 30>> /\ genSlots[16].end = <<17, 0>>
        /\ \A i \in 1..15 : genSlots[i + 1].start = genSlots[i].end
        /\ \A i \in 1..16 : genSlots[i].isAvailable
        /\ GenerateTimeSlots(19727, DefaultSettings) = genSlots

C9_Witness == genPc = "done" /\ NineToFive /\ Len(genSlots) = 16

\* C10: for an open day the generator returns, in order, the slots k = 0, 1, ...
\* with start = o + k*(d+b) and end = start + d, all of them within opening
\* hours, and stops only when the next one would end after closing.
C10_ExactlyTheFittingSlots ==
    (genPc = "done" /\ genIn.hasEntry /\ genIn.isOpen) =>
        LET o == ParseTime(genIn.start)
            c == ParseTime(genIn.end)
            d == genIn.slotDuration
            b == genIn.breakBetweenSlots
        IN  /\ \A i \in 1..Len(genSlots) :
                  /\ ParseTime(genSlots[i].start) = o + (i - 1) * (d + b)
                  /\ ParseTime(genSlots[i].end) = o + (i - 1) * (d + b) + d
                  /\ o <= ParseTime(genSlots[i].start)
                  /\ ParseTime(genSlots[i].end) <= c
            /\ o + Len(genSlots) * (d + b) + d > c

\* C10 witness: a finished run with a break between slots that returned
\* several slots and left a slot-sized remainder unused before closing.
C10_Witness ==
    /\ genPc = "done" /\ genIn.hasEntry /\ genIn.isOpen
    /\ genIn.breakBetweenSlots = 5
    /\ Len(genSlots) >= 3
    /\ ParseTime(genSlots[Len(genSlots)].end) < ParseTime(genIn.end)

\* The settings whose business hours hold the generator input's entry for the
\* date's weekday, or an entry of another weekday only when the input has none.
SettingsOfInput(date) ==
    [businessHours |->
        IF genIn.hasEntry
        THEN <<Hours(DayOfWeek(date + 1), <<9, 0>>, <<17, 0>>, TRUE),
               Hours(DayOfWeek(date), genIn.start, genIn.end, genIn.isOpen)>>
        ELSE <<Hours(DayOfWeek(date + 1), <<9, 0>>, <<17, 0>>, TRUE)>>,
     slotDuration |-> genIn.slotDuration,
     breakBetweenSlots |-> genIn.breakBetweenSlots]

\* C11: when the weekday of the date has no business-hours entry, or its entry
\* has isOpen = false, generateTimeSlots returns the empty sequence, whatever
\* the slot duration, the break and the entry's start and end are.
C11_ClosedDayHasNoSlots ==
    (genPc = "done" /\ (~genIn.hasEntry \/ ~genIn.isOpen)) =>
        /\ genSlots = <<>>
        /\ genIters = 0
        /\ \A date \in Dates : GenerateTimeSlots(date, SettingsOfInput(date)) = <<>>

\* C11 witness: a finished run for a closed day whose hours would hold slots.
C11_Witness ==
    /\ genPc = "done" /\ genIn.hasEntry /\ ~genIn.isOpen
    /\ genIn.start = <<9, 0>> /\ genIn.end = <<17, 0>> /\ genIn.slotDuration = 120
    /\ genSlots = <<>>

\* C12: a successful PUT /settings step leaves the organization's slot cache
\* without any day, and both slot reads of every date then return the slots
\* generated from the new settings, reconciled with the booked-slots index.
C12_SettingsChangeClearsCache ==
    [][(settings' # settings \/ timeSlots' # timeSlots) =>
        \A u \in Callers \cap DOMAIN settings' : \A body \in SettingsInputs \cap {settings'[u]} :
          (PutSettingsCode(u, body) = 200 /\ PutSettings(u, body))
              => /\ DOMAIN timeSlots'[u] = {}
                 /\ \A date \in Dates :
                       \A fresh \in {MarkBooked(GenerateTimeSlots(date, body), date)} :
                          /\ (GetSlotsCode(u, date) = 200)'
                          /\ GetSlotsBody(u, date)' = fresh
                          /\ StatusDaySlots(u, date)' = fresh]_vars

\* C12 witness: the organization has one-hour slots, its cache holds no day, a
\* live appointment holds the half-hour slot 09:00-09:30 booked under the
\* previous settings, and the read of that Friday returns eight one-hour slots.
C12_Witness ==
    /\ "org1" \in DOMAIN settings /\ settings["org1"] = HourSettings
    /\ DOMAIN timeSlots["org1"] = {}
    /\ Occupied("org1", 19727, <<9, 0>>, <<9, 30>>)
    /\ GetSlotsCode("org1", 19727) = 200
    /\ Len(GetSlotsBody("org1", 19727)) = 8
    /\ GetSlotsBody("org1", 19727)[1] = [start |-> <<9, 0>>, end |-> <<10, 0>>, isAvailable |-> TRUE]

\* C13: after a PUT /locked-days step that locks or unlocks a day, GET
\* /slots/status reports isLocked = true for exactly the dates in the locked
\* days, and the totalSlots and availableSlots of every date are what they were
\* before the step: locking or unlocking a day changes no count.
C13_LockedFlagIndependentOfCounts ==
    [][lockedDays' # lockedDays =>
        \A u \in Callers, locked \in Dates, isLocked \in BOOLEAN :
          (PutLockedDayCode(u) = 200 /\ PutLockedDay(u, locked, isLocked))
              => \A date \in Dates :
                    \A before \in {StatusResponse(u, date, date)[date]},
                       after \in {StatusResponse(u, date, date)'[date]} :
                        /\ after.isLocked = Includes(lockedDays'[u], date)
                        /\ date = locked => after.isLocked = isLocked
                        /\ after.totalSlots = before.totalSlots
                        /\ after.availableSlots = before.availableSlots]_vars

\* C13 witness: a locked Friday with a booked slot is reported locked with its
\* 16 slots, 15 of them available.
C13_Witness ==
    /\ "org1" \in DOMAIN lockedDays /\ Includes(lockedDays["org1"], 19727)
    /\ ExistingBooking(19727, [start |-> <<9, 0>>, end |-> <<9, 30>>])
    /\ StatusResponse("org1", 19727, 19727)[19727]
          = [isLocked |-> TRUE, availableSlots |-> 15, totalSlots |-> 16]

\* C14: for every day of the requested range GET /slots/status reports
\* totalSlots = the number of the day's slots and availableSlots = the number
\* of them that are available after reconciliation with the booked-slots
\* index, so 0 <= availableSlots <= totalSlots; and the day's entry is the one
\* a request for that day alone returns, whatever the other days of the range.
C14_PerDayCounts ==
    \A u \in Orgs, first \in Dates, last \in Dates :
        first <= last =>
            \A response \in {StatusResponse(u, first, last)} :
                /\ DOMAIN response = first..last
                /\ \A date \in first..last :
                      \A daySlots \in {StatusDaySlots(u, date)} :
                          /\ response[date].totalSlots = Len(daySlots)
                          /\ response[date].availableSlots
                                = Cardinality({i \in 1..Len(daySlots) :
                                                 /\ daySlots[i].isAvailable
                                                 /\ ~IsBooked(date, daySlots[i])})
                          /\ 0 <= response[date].availableSlots
                          /\ response[date].availableSlots <= response[date].totalSlots
                          /\ response[date] = StatusResponse(u, date, date)[date]

\* C14 witness: the two-day range reports an open Friday with a booked slot and
\* a closed Saturday, each with its own counts.
C14_Witness ==
    /\ ExistingBooking(19727, [start |-> <<9, 0>>, end |-> <<9, 30>>])
    /\ "org1" \in DOMAIN timeSlots /\ DOMAIN timeSlots["org1"] = {19727}
    /\ StatusResponse("org1", 19727, 19728)[19727].totalSlots = 16
    /\ StatusResponse("org1", 19727, 19728)[19727].availableSlots = 15
    /\ StatusResponse("org1", 19727, 19728)[19728].totalSlots = 0

\* The five stores of the server are left as they are.
StoresUnchanged == UNCHANGED <<appointments, bookedSlots, settings, timeSlots, lockedDays>>

\* Every route of the appointments, settings, slots and locked-days endpoints
\* answers 401 to the caller.
AllRoutesAnswer401(u) ==
    /\ ListCode(u) = 401
    /\ StatsCode(u) = 401
    /\ \A status \in FilterStatuses, date \in FilterDates : FilterCode(u, status, date) = 401
    /\ \A org \in Orgs, date \in Dates, timeSlot \in BookableSlots :
          CreateCode(u, org, date, timeSlot) = 401
    /\ \A id \in 1..MaxAppointments :
          /\ GetAppointmentCode(u, id) = 401
          /\ CancelCode(u, id) = 401
          /\ \A status \in {"confirmed", "cancelled"} : UpdateStatusCode(u, id, status) = 401
    /\ GetSettingsCode(u) = 401
    /\ \A body \in SettingsInputs : PutSettingsCode(u, body) = 401
    /\ \A first \in Dates, last \in Dates : GetSlotsStatusCode(u, first, last) = 401
    /\ \A date \in Dates : GetSlotsCode(u, date) = 401 /\ PutSlotsCode(u, date) = 401
    /\ PutLockedDayCode(u) = 401

\* The routes that require a role answer 401 to a caller of another role.
RoleRoutesAnswer401(u) ==
    /\ Role(u) # "individual" =>
          /\ \A org \in Orgs, date \in Dates, timeSlot \in BookableSlots :
                CreateCode(u, org, date, timeSlot) = 401
          /\ \A id \in 1..MaxAppointments : CancelCode(u, id) = 401
    /\ Role(u) # "organization" =>
          /\ StatsCode(u) = 401
          /\ \A id \in 1..MaxAppointments, status \in {"confirmed", "cancelled"} :
                UpdateStatusCode(u, id, status) = 401

\* A step of a route by a caller the route answers 401 to.
UnauthorizedStep(u) ==
    \/ /\ Role(u) # "individual"
       /\ \/ \E org \in Orgs, date \in Dates, timeSlot \in BookableSlots :
                CreateAppointment(u, org, date, timeSlot)
          \/ \E id \in 1..MaxAppointments : CancelAppointment(u, id)
    \/ /\ Role(u) # "organization"
       /\ \E id \in 1..MaxAppointments, status \in {"confirmed", "cancelled"} :
             UpdateStatus(u, id, status)
    \/ /\ ~Authenticated(u)
       /\ \/ GetSettings(u)
          \/ \E body \in SettingsInputs : PutSettings(u, body)
          \/ \E first \in Dates, last \in Dates : GetSlotsStatus(u, first, last)
          \/ \E date \in Dates : GetSlots(u, date)
          \/ \E date \in Dates : \E body \in PutSlotsInputs(u, date) : PutSlots(u, date, body)
          \/ \E date \in Dates, isLocked \in BOOLEAN : PutLockedDay(u, date, isLocked)

\* C15: a request without an authenticated user is answered 401 by every
\* appointments, settings, slots and locked-days route, a caller of the wrong
\* role is answered 401 by create, individual cancel, status update and stats,
\* and a step of such a request leaves the five stores unchanged.
C15_UnauthorizedChangesNothing ==
    /\ [](\A u \in Callers :
            /\ ~Authenticated(u) => AllRoutesAnswer401(u)
            /\ RoleRoutesAnswer401(u))
    /\ [][StoresUnchanged \/ \A u \in Callers : ~UnauthorizedStep(u)]_vars

\* C15 witness: with a pending appointment stored and the organization's
\* settings, cache and locked days in place, the routes answer 401 to a request
\* without a token and to callers of the wrong role.
C15_Witness ==
    /\ Len(appointments) >= 1 /\ appointments[1].status = "pending"
    /\ "org1" \in DOMAIN lockedDays /\ Includes(lockedDays["org1"], 19727)
    /\ Cached("org1", 19727)
    /\ AllRoutesAnswer401("noToken")
    /\ CancelCode("org1", 1) = 401
    /\ UpdateStatusCode("ind1", 1, "cancelled") = 401
    /\ CancelCode("ind1", 1) = 200
    /\ UpdateStatusCode("org1", 1, "cancelled") = 200

\* The (start, end) entries the index holds under a date, in order.
IndexEntries(bs, date) == IF date \in DOMAIN bs THEN bs[date].timeSlots ELSE <<>>

\* C16: a create-appointment request of an individual whose date and (start,
\* end) have an entry in the booked-slots index is answered 400 and changes
\* neither the appointments nor the index; one that finds no entry is answered
\* 201 and appends exactly one appointment, with status "pending", and exactly
\* one index entry (start, end) under that date.
C16_CreateChecksIndex ==
    /\ [](\A u \in Inds, org \in Orgs, date \in Dates, timeSlot \in BookableSlots :
            CreateCode(u, org, date, timeSlot)
                = IF ExistingBooking(date, timeSlot) THEN 400 ELSE 201)
    /\ [][(appointments' # appointments \/ bookedSlots' # bookedSlots) =>
          \A u \in Inds, org \in Orgs, date \in Dates, timeSlot \in BookableSlots :
            CreateAppointment(u, org, date, timeSlot) =>
                IF ExistingBooking(date, timeSlot)
                THEN UNCHANGED <<appointments, bookedSlots>>
                ELSE /\ Len(appointments') = Len(appointments) + 1
                     /\ SubSeq(appointments', 1, Len(appointments)) = appointments
                     /\ \A created \in {appointments'[Len(appointments')]} :
                           /\ created.status = "pending"
                           /\ created.individualId = u
                           /\ created.organizationId = org
                           /\ FormatDate(created.date) = date
                           /\ created.timeSlot = timeSlot
                     /\ IndexEntries(bookedSlots', date)
                           = Append(IndexEntries(bookedSlots, date),
                                    [start |-> timeSlot.start, end |-> timeSlot.end])
                     /\ \A other \in Dates \ {date} :
                           IndexEntries(bookedSlots', other) = IndexEntries(bookedSlots, other)
                     /\ DOMAIN bookedSlots' = DOMAIN bookedSlots \cup {date}]_vars

\* C16 witness: two pending appointments hold the two slots of one date, the
\* index holds both entries, and a further request for either slot gets 400.
C16_Witness ==
    /\ Len(appointments) = 2
    /\ appointments[1].status = "pending" /\ appointments[2].status = "pending"
    /\ Len(IndexEntries(bookedSlots, 19727)) = 2
    /\ \A timeSlot \in BookableSlots : CreateCode("ind1", "org1", 19727, timeSlot) = 400

\* C17: an appointment whose status is "cancelled" keeps that status in every
\* later step.
C17_CancelledStaysCancelled ==
    [][\A id \in 1..Len(appointments) :
          appointments[id].status = "cancelled" => appointments'[id].status = "cancelled"]_vars

\* C19: a step of either cancel route on an appointment that is already
\* cancelled (the individual's cancel, or the organization's status update to
\* "cancelled") leaves the appointments and the booked-slots index unchanged.
C19_RepeatedCancelChangesNothing ==
    [][\A id \in 1..Len(appointments) :
          (/\ appointments[id].status = "cancelled"
           /\ \E u \in Users : CancelAppointment(u, id) \/ UpdateStatus(u, id, "cancelled"))
              => UNCHANGED <<appointments, bookedSlots>>]_vars

\* C18: a successful create-appointment step for organization a changes, for
\* every other organization b, neither the response status of a create request
\* for b with the same date, nor what b's slot reads of that date return.
C18_OrganizationsDoNotInterfere ==
    [][Len(appointments') > Len(appointments) =>
        \A u \in Inds, a \in Orgs, date \in Dates, timeSlot \in BookableSlots :
          (CreateCode(u, a, date, timeSlot) = 201 /\ CreateAppointment(u, a, date, timeSlot))
              => \A b \in Orgs \ {a} :
                    /\ \A v \in Inds, slot \in BookableSlots :
                          CreateCode(v, b, date, slot)' = CreateCode(v, b, date, slot)
                    /\ StatusDaySlots(b, date)' = StatusDaySlots(b, date)
                    /\ GetSlotsCode(b, date) = 200
                          => GetSlotsBody(b, date)' = GetSlotsBody(b, date)]_vars

\* The appointment is the caller's: by organizationId for an organization, by
\* individualId for an individual.
BelongsTo(apt, u) ==
    /\ u \in Orgs => apt.organizationId = u
    /\ u \in Inds => apt.individualId = u

\* C20: an organization's status update on another organization's appointment
\* and an individual's cancel of another individual's appointment are answered
\* 404 and change neither the appointment's status nor the booked-slots index;
\* list, filter and get-by-id return only appointments of the caller.
C20_ForeignAppointmentsOutOfReach ==
    /\ [](\A u \in Users :
            /\ \A id \in 1..Len(appointments) :
                  ~BelongsTo(appointments[id], u) =>
                      /\ u \in Orgs => \A status \in {"confirmed", "cancelled"} :
                                          UpdateStatusCode(u, id, status) = 404
                      /\ u \in Inds => CancelCode(u, id) = 404
                      /\ GetAppointmentCode(u, id) = 404
            /\ \A i \in 1..Len(ListBody(u)) : BelongsTo(ListBody(u)[i], u)
            /\ \A status \in FilterStatuses, date \in FilterDates :
                  \A i \in 1..Len(FilterBody(u, status, date)) :
                      BelongsTo(FilterBody(u, status, date)[i], u))
    /\ [][(appointments' # appointments \/ bookedSlots' # bookedSlots) =>
          \A u \in Users, id \in 1..Len(appointments) :
            (/\ ~BelongsTo(appointments[id], u)
             /\ \/ CancelAppointment(u, id)
                \/ \E status \in {"confirmed", "cancelled"} : UpdateStatus(u, id, status))
                => /\ appointments'[id].status = appointments[id].status
                   /\ UNCHANGED bookedSlots]_vars

\* C20 witness: each organization and each individual has one appointment, and
\* the other's is answered 404 and is absent from the list.
C20_Witness ==
    /\ Len(appointments) = 2
    /\ appointments[1].organizationId = "org1" /\ appointments[1].individualId = "ind1"
    /\ appointments[2].organizationId = "org2" /\ appointments[2].individualId = "ind2"
    /\ UpdateStatusCode("org2", 1, "cancelled") = 404
    /\ CancelCode("ind2", 1) = 404
    /\ GetAppointmentCode("org2", 1) = 404 /\ GetAppointmentCode("org1", 1) = 200
    /\ ListBody("org1") = <<appointments[1]>>
    /\ ListBody("ind2") = <<appointments[2]>>

\* C21: a create-appointment step succeeds only when the organization's slots
\* of that date, as its reads report them, hold a slot with the request's
\* (start, end) that is available.
C21_OnlyAvailableSlotsBooked ==
    [][Len(appointments') > Len(appointments) =>
        \A u \in Inds, org \in Orgs, date \in Dates, timeSlot \in BookableSlots :
          (CreateCode(u, org, date, timeSlot) = 201 /\ CreateAppointment(u, org, date, timeSlot))
              => \A daySlots \in {StatusDaySlots(org, date)} :
                    \E i \in 1..Len(daySlots) :
                        /\ daySlots[i].start = timeSlot.start
                        /\ daySlots[i].end = timeSlot.end
                        /\ daySlots[i].isAvailable]_vars

\* C22: for every organization that has registered, PUT /locked-days/:date,
\* GET /slots/:date and PUT /slots/:date are not answered 500, whatever was
\* handled for it before.
C22_RegisteredOrganizationIsInitialised ==
    \A u \in RegisteredOrgs :
        /\ PutLockedDayCode(u) # 500
        /\ \A date \in Dates : GetSlotsCode(u, date) # 500 /\ PutSlotsCode(u, date) # 500

\* C27: no two stored users have the same email.
C27_EmailsAreUnique ==
    \A i \in 1..Len(users), j \in 1..Len(users) :
        i # j => users[i].email # users[j].email

\* C23: no date appears twice in an organization's locked days; and a PUT
\* /locked-days step makes the date locked or unlocked as asked, in the list
\* and in both reads, and changes neither the lock state of another date, nor
\* the locked days of another organization, nor the slot cache, nor the
\* booked-slots index.
C23_LockedDaysAreASet ==
    /\ [](\A u \in DOMAIN lockedDays :
            \A i \in 1..Len(lockedDays[u]), j \in 1..Len(lockedDays[u]) :
                i # j => lockedDays[u][i] # lockedDays[u][j])
    /\ [][lockedDays' # lockedDays =>
          \A u \in Orgs, date \in Dates, isLocked \in BOOLEAN :
            (PutLockedDayCode(u) = 200 /\ PutLockedDay(u, date, isLocked))
                => /\ Includes(lockedDays'[u], date) = isLocked
                   /\ StatusResponse(u, date, date)'[date].isLocked = isLocked
                   /\ GetSlotsLocked(u, date)' = isLocked
                   /\ \A other \in Dates \ {date} :
                         Includes(lockedDays'[u], other) = Includes(lockedDays[u], other)
                   /\ DOMAIN lockedDays' = DOMAIN lockedDays
                   /\ \A v \in DOMAIN lockedDays \ {u} : lockedDays'[v] = lockedDays[v]
                   /\ UNCHANGED <<timeSlots, bookedSlots>>]_vars

\* C23 witness: each organization has locked one day, not the same one, while
\* the first has a booked Friday slot in its cache.
C23_Witness ==
    /\ DOMAIN lockedDays = Orgs
    /\ lockedDays["org1"] = <<19728>> /\ lockedDays["org2"] = <<19727>>
    /\ ~StatusResponse("org1", 19727, 19727)[19727].isLocked
    /\ StatusResponse("org2", 19727, 19727)[19727].isLocked
    /\ Cached("org1", 19727) /\ ExistingBooking(19727, [start |-> <<9, 0>>, end |-> <<9, 30>>])

\* The stores other than the caller's: every organization other than u has
\* the settings, locked days and slot cache it had.
OthersUnchanged(u) ==
    /\ \A v \in DOMAIN settings \ {u} : v \in DOMAIN settings' /\ settings'[v] = settings[v]
    /\ \A v \in DOMAIN lockedDays \ {u} : v \in DOMAIN lockedDays' /\ lockedDays'[v] = lockedDays[v]
    /\ \A v \in DOMAIN timeSlots \ {u} : v \in DOMAIN timeSlots' /\ timeSlots'[v] = timeSlots[v]
    /\ DOMAIN settings' \subseteq DOMAIN settings \cup {u}
    /\ DOMAIN lockedDays' \subseteq DOMAIN lockedDays \cup {u}
    /\ DOMAIN timeSlots' \subseteq DOMAIN timeSlots \cup {u}

\* What a GET /slots/status step over first..last does to the caller's cache:
\* the days of the range are added, a day that was cached keeps its slots with
\* the booked ones turned unavailable, and a day that was not holds the slots
\* generated from the caller's settings, reconciled in the same way.
CacheFilled(u, first, last) ==
    \A old \in {TimeSlotsAfterInit(u)[u]}, new \in {timeSlots'[u]} :
        /\ DOMAIN new = DOMAIN old \cup (first..last)
        /\ \A date \in DOMAIN old :
              /\ Len(new[date]) = Len(old[date])
              /\ \A i \in 1..Len(old[date]) :
                    /\ new[date][i].start = old[date][i].start
                    /\ new[date][i].end = old[date][i].end
                    /\ new[date][i].isAvailable =
                          IF date \in first..last /\ IsBooked(date, old[date][i])
                          THEN FALSE
                          ELSE old[date][i].isAvailable
        /\ \A date \in (first..last) \ DOMAIN old :
              new[date] = MarkBooked(GenerateTimeSlots(date, settings'[u]), date)

\* C24 as stated: a GET /slots/status step changes only the caller's slot
\* cache: the settings, the locked days, the appointments and the booked-slots
\* index are as before, and so is every other organization's cache.
C24_StatusChangesOnlyCache ==
    [][\A u \in Orgs, first \in Dates, last \in Dates :
          GetSlotsStatus(u, first, last) =>
              /\ UNCHANGED <<appointments, bookedSlots, settings, lockedDays>>
              /\ OthersUnchanged(u)]_vars

\* C24 amended: a GET /slots/:date step changes no store.  A GET /slots/status
\* step changes nothing of the appointments, the booked-slots index and the
\* other organizations; for a caller without settings it first stores the
\* default settings and an empty locked-days list, and otherwise leaves the
\* caller's settings and locked days as they are; in the caller's cache it only
\* adds the days of the range that had no list and turns booked slots
\* unavailable, without changing the number of slots of a cached day.
C24_ReadsHaveBoundedEffects ==
    [][/\ \A u \in Orgs, date \in Dates : GetSlots(u, date) => StoresUnchanged
       /\ (settings' # settings \/ timeSlots' # timeSlots \/ lockedDays' # lockedDays) =>
            \A u \in Orgs, first \in Dates, last \in Dates :
              GetSlotsStatus(u, first, last) =>
                  /\ UNCHANGED <<appointments, bookedSlots>>
                  /\ OthersUnchanged(u)
                  /\ settings'[u] = IF u \in DOMAIN settings THEN settings[u] ELSE DefaultSettings
                  /\ lockedDays'[u] = IF u \in DOMAIN lockedDays THEN lockedDays[u] ELSE <<>>
                  /\ CacheFilled(u, first, last)]_vars

\* C24 witness: both organizations have read their statuses; the first one's
\* cached Friday holds its 16 slots with the booked one unavailable, and its
\* locked day is still locked.
C24_Witness ==
    /\ DOMAIN timeSlots = Orgs
    /\ Cached("org1", 19727) /\ Cached("org2", 19728)
    /\ Len(timeSlots["org1"][19727]) = 16
    /\ ~timeSlots["org1"][19727][1].isAvailable
    /\ timeSlots["org1"][19727][2].isAvailable
    /\ lockedDays["org1"] = <<19727>>
    /\ Len(appointments) = 1

\* slotDuration within 15..120 and breakBetweenSlots within 0..60.
InRange(s) ==
    /\ s.slotDuration \in 15..120
    /\ s.breakBetweenSlots \in 0..60

\* C25: every stored settings value has slotDuration within 15..120 and
\* breakBetweenSlots within 0..60; a PUT /settings whose body is outside these
\* ranges is answered 400 and leaves the settings, the slot cache and the
\* locked days as they were, creating no default settings and clearing no
\* cache.
C25_StoredSettingsInRange ==
    /\ [](\A u \in DOMAIN settings : InRange(settings[u]))
    /\ [](\A u \in Orgs, body \in SettingsInputs :
            ~InRange(body) => PutSettingsCode(u, body) = 400)
    /\ [][\A u \in Orgs, body \in SettingsInputs :
            (~InRange(body) /\ PutSettings(u, body))
                => UNCHANGED <<settings, timeSlots, lockedDays>>]_vars

\* C25 witness: an organization whose settings were replaced by an accepted
\* PUT /settings holds a cached day and a locked day, which a rejected PUT
\* /settings has to leave alone.
C25_Witness ==
    /\ "org1" \in DOMAIN settings /\ settings["org1"] = HourSettings
    /\ Cached("org1", 19727)
    /\ lockedDays["org1"] # <<>>
    /\ \E body \in SettingsInputs : PutSettingsCode("org1", body) = 400

\* C26: for settings that PUT /settings accepts and an open business-hours
\* entry whose start is not after its end, the loop of generateTimeSlots runs
\* at most (end - start) / (slotDuration + breakBetweenSlots) + 1 times, and
\* the call returns.
C26_LoopTerminates ==
    /\ [](InRange(genIn) /\ ParseTime(genIn.start) <= ParseTime(genIn.end))
    /\ []((genIn.hasEntry /\ genIn.isOpen) =>
            genIters <= (ParseTime(genIn.end) - ParseTime(genIn.start))
                            \div (genIn.slotDuration + genIn.breakBetweenSlots) + 1)
    /\ [](genPc = "start" => genIters = 0)
    /\ <>(genPc = "done")

\* C26 witness: a finished run that took as many iterations as the bound
\* allows, the last of them finding no room for a slot.
C26_Witness ==
    /\ genPc = "done" /\ genIn.hasEntry /\ genIn.isOpen
    /\ genIn.breakBetweenSlots = 60
    /\ genIters >= 3
    /\ genIters = (ParseTime(genIn.end) - ParseTime(genIn.start))
                      \div (genIn.slotDuration + genIn.breakBetweenSlots) + 1
    /\ Len(genSlots) = genIters - 1

\* The appointments that create-appointment stored for organization u with a
\* date within first..last.
StoredInRange(u, first, last) ==
    SelectSeq(appointments, LAMBDA apt : /\ apt.organizationId = u
                                         /\ FormatDate(apt.date) \in first..last)

\* C28: the totalAppointments that GET /analytics reports for an organization
\* over a date range is the number of appointments that create-appointment
\* stored for it within the range, and the completion and cancellation rates
\* are the rounded percentages of the confirmed and the cancelled among them.
C28_AnalyticsCountStoredAppointments ==
    \A u \in Orgs, first \in Dates, last \in Dates :
        (first <= last /\ AnalyticsCode(u) = 200) =>
            LET stored == StoredInRange(u, first, last)
                body == AnalyticsBody(u, first, last)
                count(status) == Len(SelectSeq(stored, LAMBDA apt : apt.status = status))
            IN  /\ body.totalAppointments = Len(stored)
                /\ Len(stored) > 0 =>
                      /\ body.completionRate = Round(count("confirmed") * 100, Len(stored))
                      /\ body.cancellationRate = Round(count("cancelled") * 100, Len(stored))

\* C29: the appointments list only grows at its end, by appointments with
\* status "pending"; a stored appointment keeps its id, organizationId,
\* individualId, date and timeSlot, and its status never turns from another
\* value to "pending": a status update to "pending" is answered 400.
C29_AppendOnlyApartFromStatus ==
    /\ [](\A id \in 1..Len(appointments) :
            /\ appointments[id].id = id
            /\ UpdateStatusCode(appointments[id].organizationId, id, "pending") = 400)
    /\ [][appointments' # appointments =>
            /\ Len(appointments') >= Len(appointments)
            /\ \A i \in 1..Len(appointments) :
                  /\ appointments'[i].id = appointments[i].id
                  /\ appointments'[i].organizationId = appointments[i].organizationId
                  /\ appointments'[i].individualId = appointments[i].individualId
                  /\ appointments'[i].date = appointments[i].date
                  /\ appointments'[i].timeSlot = appointments[i].timeSlot
                  /\ appointments'[i].status = "pending" => appointments[i].status = "pending"
            /\ \A i \in (Len(appointments) + 1)..Len(appointments') :
                  appointments'[i].status = "pending"]_vars

\* C29 witness: two stored appointments whose statuses were changed, one to
\* confirmed and one to cancelled, both still in the list.
C29_Witness ==
    /\ Len(appointments) = 2
    /\ appointments[1].status = "confirmed"
    /\ appointments[2].status = "cancelled"
    /\ UpdateStatusCode("org1", 1, "pending") = 400

\* C30: in the client's AuthContext user is non-null only if a token is
\* stored in localStorage or in sessionStorage.
C30_UserOnlyWithToken ==
    user # "null" => (localStorage # "null" \/ sessionStorage # "null")

====
